---- MODULE Spec2Model ----
(***************************************************************************)
(* A model of the OneSR utilities:                                         *)
(*   - onesr/data/data_sampler.py   EnlargedSampler                        *)
(*   - onesr/losses/loss_util.py    get_enum, reduce_loss,                 *)
(*                                  weight_reduce_loss, weighted_loss,     *)
(*                                  get_local_weights,                     *)
(*                                  get_refined_artifact_map               *)
(*   - inference/inference_basicvsr.py   main (the frame batching loop)    *)
(*                                                                         *)
(* Four specifications share the module: Spec (the sampler objects of one  *)
(* training job), SpecLoss (one call of a loss utility), SpecLDL (one call *)
(* of get_refined_artifact_map) and SpecInference (one run of main).  A    *)
(* specification keeps the variables of the other three at their idle     *)
(* values.                                                                 *)
(*                                                                         *)
(* Numbers: tensors hold small naturals; a mean, a quotient or a variance  *)
(* is an exact fraction [num, den] in lowest terms (den = 0 is the float   *)
(* nan (0/0) or inf (x/0)).  Float rounding is not modelled.               *)
(***************************************************************************)
EXTENDS Integers, Sequences, FiniteSets

VARIABLES
    \* ---- EnlargedSampler
    job,          \* the constructor arguments shared by the job's samplers
    generator,    \* seed |-> flow.randperm(total_size) under manual_seed(seed)
    sampler,      \* the fields of each sampler object
    yielded,      \* the list the last __iter__ of each sampler returned
    iterSeed,     \* <<seed>> of the last __iter__, <<>> before the first
    assertFailed, \* whether `assert len(indices) == self.num_samples` failed
    \* ---- loss utilities
    tensor,       \* the first tensor argument (loss, or pred for the wrapper)
    weight,       \* the weight argument, None or a tensor
    reduction,    \* the reduction argument
    target,       \* the wrapper's target argument, None outside the wrapper
    call,         \* the entry point that was called, "" before the call
    ret,          \* what the call ended in
    \* ---- get_refined_artifact_map
    img_gt, img_output, img_ema, ksize,
    ldl,          \* the map get_refined_artifact_map returned, <<>> before
    \* ---- inference main
    files,        \* the names glob finds under input_path
    interval,     \* args.interval
    pc,           \* where main is
    idx,          \* the loop variable of `for idx in range(0, num_imgs, interval)`
    calls         \* the imgs_list slices passed to inference so far, in call order

samplerVars == <<job, generator, sampler, yielded, iterSeed, assertFailed>>
lossVars == <<tensor, weight, reduction, target, call, ret>>
ldlVars == <<img_gt, img_output, img_ema, ksize, ldl>>
inferVars == <<files, interval, pc, idx, calls>>
vars == <<samplerVars, lossVars, ldlVars, inferVars>>

None == [none |-> TRUE]

Min(a, b) == IF a < b THEN a ELSE b

(***************************************************************************)
(* Bounds of the model.                                                    *)
(***************************************************************************)
MaxTotal == 3          \* samplers with total_size <= MaxTotal
MaxLen == 3            \* one-dimensional tensors of 1..MaxLen elements
MaxC == 2              \* (1, C, 1, W) tensors with C in 1..MaxC
MaxVal == 3            \* elements of one-dimensional tensors in 0..MaxVal
MaxFiles == 5          \* at most MaxFiles frames under input_path
MaxInterval == 3       \* --interval in 1..MaxInterval

Epochs == {0, 1}       \* the values passed to set_epoch (0 is __init__'s)
Procs == {"a", "b"}    \* two independently constructed sampler objects
Widths == {1, 2}       \* (1, C, 1, W) tensors with W in Widths
LossVals == {0, 1, 2}  \* elements of (1, C, 1, W) loss tensors
WeightVals == {0, 1}   \* weight elements: a mask
Pixels == {0, 1}       \* image elements of the artifact map's inputs
KSizes == {3}          \* the window size (a 1 x 1 window has no unbiased variance)

(***************************************************************************)
(* Idle values of each component's variables.                              *)
(***************************************************************************)
SamplerIdle ==
    /\ job = None /\ generator = None /\ sampler = None
    /\ yielded = None /\ iterSeed = None /\ assertFailed = None

LossIdle ==
    /\ tensor = None /\ weight = None /\ reduction = ""
    /\ target = None /\ call = "" /\ ret = None

LDLIdle ==
    /\ img_gt = None /\ img_output = None /\ img_ema = None
    /\ ksize = 0 /\ ldl = <<>>

InferIdle ==
    /\ files = {} /\ interval = 0 /\ pc = "" /\ idx = 0 /\ calls = <<>>

(***************************************************************************)
(* EnlargedSampler (onesr/data/data_sampler.py)                            *)
(***************************************************************************)
\* math.ceil(a / b) for naturals a and b >= 1
Ceil(a, b) == IF a % b = 0 THEN a \div b ELSE (a \div b) + 1

\* Variant of __init__ that rounds num_samples down (len * ratio // num_replicas)
SamplerInit_Floor(dataset_size, num_replicas, rank, ratio) ==
    LET num_samples == (dataset_size * ratio) \div num_replicas
    IN  [dataset_size |-> dataset_size,
         num_replicas |-> num_replicas,
         rank         |-> rank,
         epoch        |-> 0,
         num_samples  |-> num_samples,
         total_size   |-> num_samples * num_replicas]

\* __init__: the fields of a new sampler
SamplerInit(dataset_size, num_replicas, rank, ratio) ==
    LET num_samples == Ceil(dataset_size * ratio, num_replicas)
    IN  [dataset_size |-> dataset_size,
         num_replicas |-> num_replicas,
         rank         |-> rank,
         epoch        |-> 0,
         num_samples  |-> num_samples,
         total_size   |-> num_samples * num_replicas]

\* The permutations of 0 .. n-1, as Python lists
RandPerms(n) ==
    {s \in [1..n -> 0..(n - 1)] : \A i, j \in 1..n : s[i] = s[j] => i = j}

\* Variant of the slice that ignores its start: list[0 : stop : step]
PySlice_FromZero(list, start, stop, step) ==
    LET hi  == Min(stop, Len(list))
        cnt == IF 0 >= hi THEN 0 ELSE Ceil(hi, step)
    IN  [k \in 1..cnt |-> list[(k - 1) * step + 1]]

\* list[start : stop : step] for start, stop >= 0 and step >= 1
PySlice(list, start, stop, step) ==
    LET hi  == Min(stop, Len(list))
        cnt == IF start >= hi THEN 0 ELSE Ceil(hi - start, step)
    IN  [k \in 1..cnt |-> list[start + (k - 1) * step + 1]]

\* Variant of the seed that forgets the epoch: g.manual_seed(0)
IterSeedOf_Zero(self) == 0

\* The generator seed __iter__ uses
IterSeedOf(self) == self.epoch

\* flow.randperm(self.total_size, generator=g) with g seeded by manual_seed:
\* the library's function of the seed (any one function, fixed from the start)
randperm(gen, seed) == gen[seed]

\* __iter__ up to the assertion: the subsampled list
IterIndices(self, gen) ==
    LET perm    == randperm(gen, IterSeedOf(self))
        indices == [i \in 1..Len(perm) |-> perm[i] % self.dataset_size]
    IN  PySlice(indices, self.rank, self.total_size, self.num_replicas)

\* The sampler after __iter__ returned (the method assigns no field)
AfterIter(self) == self

\* set_epoch
AfterSetEpoch(self, epoch) == [self EXCEPT !.epoch = epoch]

\* __len__
SamplerLen(self) == self.num_samples

InitSampler ==
    /\ job \in {j \in [dataset_size : 1..MaxTotal, num_replicas : 1..MaxTotal,
                       ratio : 1..MaxTotal] :
                  Ceil(j.dataset_size * j.ratio, j.num_replicas) * j.num_replicas
                      <= MaxTotal}
    /\ \E ranks \in [Procs -> 0..(job.num_replicas - 1)] :
          \* the two objects are interchangeable: "a" has the lower rank
          /\ ranks["a"] <= ranks["b"]
          /\ sampler = [p \in Procs |->
                        SamplerInit(job.dataset_size, job.num_replicas,
                                    ranks[p], job.ratio)]
    /\ generator \in [Epochs -> RandPerms(sampler["a"].total_size)]
    /\ yielded = [p \in Procs |-> <<>>]
    /\ iterSeed = [p \in Procs |-> <<>>]
    /\ assertFailed = [p \in Procs |-> FALSE]
    /\ LossIdle /\ LDLIdle /\ InferIdle

SetEpoch(p, epoch) ==
    /\ ~assertFailed[p]
    /\ sampler' = [sampler EXCEPT ![p] = AfterSetEpoch(sampler[p], epoch)]
    /\ UNCHANGED <<job, generator, yielded, iterSeed, assertFailed>>
    /\ UNCHANGED <<lossVars, ldlVars, inferVars>>

Iterate(p) ==
    LET indices == IterIndices(sampler[p], generator)
    IN  /\ ~assertFailed[p]
        /\ IF Len(indices) = sampler[p].num_samples
           THEN /\ yielded' = [yielded EXCEPT ![p] = indices]
                /\ iterSeed' = [iterSeed EXCEPT ![p] = <<IterSeedOf(sampler[p])>>]
                /\ sampler' = [sampler EXCEPT ![p] = AfterIter(sampler[p])]
                /\ UNCHANGED assertFailed
           ELSE /\ assertFailed' = [assertFailed EXCEPT ![p] = TRUE]
                /\ UNCHANGED <<sampler, yielded, iterSeed>>
        /\ UNCHANGED <<job, generator>>
        /\ UNCHANGED <<lossVars, ldlVars, inferVars>>

NextSampler ==
    \/ \E p \in Procs, epoch \in Epochs : SetEpoch(p, epoch)
    \/ \E p \in Procs : Iterate(p)

Spec == InitSampler /\ [][NextSampler]_vars

(***************************************************************************)
(* Tensors and numbers                                                     *)
(***************************************************************************)
RECURSIVE SumSeq(_)
SumSeq(s) == IF s = <<>> THEN 0 ELSE Head(s) + SumSeq(Tail(s))

RECURSIVE ProdSeq(_)
ProdSeq(s) == IF s = <<>> THEN 1 ELSE Head(s) * ProdSeq(Tail(s))

RECURSIVE Gcd(_, _)
Gcd(a, b) == IF b = 0 THEN a ELSE Gcd(b, a % b)

\* The number n / d for naturals n and d: 0/0 is nan, n/0 is inf
Frac(n, d) ==
    IF d = 0
    THEN [num |-> IF n = 0 THEN 0 ELSE 1, den |-> 0]
    ELSE [num |-> n \div Gcd(n, d), den |-> d \div Gcd(n, d)]

IsNan(x) == x.num = 0 /\ x.den = 0

\* A tensor: its shape and its elements in row-major order
Tensor(shape, data) == [shape |-> shape, data |-> data]

\* Tensor.dim()
Dim(t) == Len(t.shape)

\* Tensor.size(d) for 0 <= d < Tensor.dim()
Size(t, d) == t.shape[d + 1]

\* Tensor.sum() and Tensor.mean()
TensorSum(t) == SumSeq(t.data)
TensorMean(t) == Frac(SumSeq(t.data), Len(t.data))

\* loss * weight, weight broadcast along dimension 1 when its size there is 1
\* (the other dimensions of the two agree)
Mul(loss, w) ==
    LET inner == ProdSeq(SubSeq(loss.shape, 3, Len(loss.shape)))
        C     == Size(loss, 1)
        Cw    == Size(w, 1)
        widx(i) == LET outer == i \div (C * inner)
                       c     == (i \div inner) % C
                       rest  == i % inner
                   IN  (outer * Cw + (IF Cw = 1 THEN 0 ELSE c)) * inner + rest
    IN  Tensor(loss.shape,
               [k \in 1..Len(loss.data) |-> loss.data[k] * w.data[widx(k - 1) + 1]])

Tensors1D(vals) ==
    UNION {{Tensor(<<n>>, d) : d \in [1..n -> vals]} : n \in 1..MaxLen}

Tensors4D(vals, widths) ==
    UNION {{Tensor(<<1, c, 1, w>>, d) : d \in [1..(c * w) -> vals]} :
              <<c, w>> \in (1..MaxC) \X widths}

(***************************************************************************)
(* Loss utilities (onesr/losses/loss_util.py)                              *)
(***************************************************************************)
\* The names bound in the module's namespace when its functions run
ModuleGlobals ==
    {"functools", "flow", "F", "_reduction_modes", "get_enum", "reduce_loss",
     "weight_reduce_loss", "weighted_loss", "get_local_weights",
     "get_refined_artifact_map"}

Reductions == {"none", "mean", "sum", "elementwise_mean", "unknown", "Mean"}

Returned(v) == [status |-> "ok", value |-> v, warned |-> FALSE]
Raised(e) == [status |-> e, value |-> None, warned |-> FALSE]

\* Variant of get_enum that maps "sum" to the enum of "mean"
get_enum_SumAsMean(r) ==
    IF r = "none" THEN Returned(0)
    ELSE IF r = "mean" THEN Returned(1)
    ELSE IF r = "elementwise_mean"
         THEN IF "warnings" \in ModuleGlobals
              THEN [Returned(1) EXCEPT !.warned = TRUE]
              ELSE Raised("NameError")
    ELSE IF r = "sum" THEN Returned(1)
    ELSE Raised("ValueError")

get_enum(r) ==
    IF r = "none" THEN Returned(0)
    ELSE IF r = "mean" THEN Returned(1)
    ELSE IF r = "elementwise_mean"
         THEN IF "warnings" \in ModuleGlobals
              THEN [Returned(1) EXCEPT !.warned = TRUE]
              ELSE Raised("NameError")
    ELSE IF r = "sum" THEN Returned(2)
    ELSE Raised("ValueError")

reduce_loss(loss, r) ==
    LET reduction_enum == get_enum(r)
    IN  IF reduction_enum.status # "ok" THEN reduction_enum
        ELSE IF reduction_enum.value = 0
             THEN [reduction_enum EXCEPT !.value = loss]
        ELSE IF reduction_enum.value = 1
             THEN [reduction_enum EXCEPT !.value = TensorMean(loss)]
        ELSE [reduction_enum EXCEPT !.value = Frac(TensorSum(loss), 1)]

\* Variant of the normalizer without the single-channel branch: weight.sum()
Normalizer_SumOnly(loss, w) == TensorSum(w)

\* The normalizer of the weighted mean
Normalizer(loss, w) ==
    IF Size(w, 1) > 1 THEN TensorSum(w) ELSE TensorSum(w) * Size(loss, 1)

weight_reduce_loss(loss, w, r) ==
    IF w # None /\ Dim(w) # Dim(loss) THEN Raised("AssertionError")
    ELSE IF w # None /\ Dim(w) < 2 THEN Raised("IndexError")
    ELSE IF w # None /\ ~(Size(w, 1) = 1 \/ Size(w, 1) = Size(loss, 1))
         THEN Raised("AssertionError")
    ELSE LET weighted == IF w # None THEN Mul(loss, w) ELSE loss
         IN  IF w = None \/ r = "sum" THEN reduce_loss(weighted, r)
             ELSE IF r = "mean"
                  THEN Returned(Frac(TensorSum(weighted), Normalizer(loss, w)))
             ELSE Returned(weighted)

\* The docstring's loss function: (pred - target).abs()
l1_loss(pred, tgt) ==
    Tensor(pred.shape,
           [k \in 1..Len(pred.data) |->
               IF pred.data[k] >= tgt.data[k] THEN pred.data[k] - tgt.data[k]
               ELSE tgt.data[k] - pred.data[k]])

\* weighted_loss(l1_loss): the wrapper
wrapper(pred, tgt, w, r) == weight_reduce_loss(l1_loss(pred, tgt), w, r)

\* The weight arguments tried for a loss tensor: none, a one-dimensional mask
\* with as many elements, a (1, C', 1, W) mask for every C' (W that of the loss)
Weights(loss) ==
    {None}
    \cup {w \in Tensors1D(WeightVals) : Len(w.data) = Len(loss.data)}
    \cup Tensors4D(WeightVals, {IF Dim(loss) = 4 THEN Size(loss, 3) ELSE 1})

\* The target arguments tried for a pred tensor: constant tensors of its shape
Targets(pred) ==
    {Tensor(pred.shape, [k \in 1..Len(pred.data) |-> v]) : v \in 0..MaxVal}

InitLoss ==
    /\ tensor \in Tensors1D(0..MaxVal) \cup Tensors4D(LossVals, Widths)
    /\ weight \in Weights(tensor)
    /\ reduction \in Reductions
    /\ target = None
    /\ call = ""
    /\ ret = None
    /\ SamplerIdle /\ LDLIdle /\ InferIdle

\* reduce_loss takes no weight: it is called from the states without one
CallReduceLoss ==
    /\ call = ""
    /\ weight = None
    /\ call' = "reduce_loss"
    /\ ret' = reduce_loss(tensor, reduction)
    /\ UNCHANGED <<tensor, weight, reduction, target>>
    /\ UNCHANGED <<samplerVars, ldlVars, inferVars>>

CallWeightReduceLoss ==
    /\ call = ""
    /\ call' = "weight_reduce_loss"
    /\ ret' = weight_reduce_loss(tensor, weight, reduction)
    /\ UNCHANGED <<tensor, weight, reduction, target>>
    /\ UNCHANGED <<samplerVars, ldlVars, inferVars>>

CallL1Loss(tgt) ==
    /\ call = ""
    /\ call' = "l1_loss"
    /\ target' = tgt
    /\ ret' = wrapper(tensor, tgt, weight, reduction)
    /\ UNCHANGED <<tensor, weight, reduction>>
    /\ UNCHANGED <<samplerVars, ldlVars, inferVars>>

NextLoss ==
    \/ CallReduceLoss
    \/ CallWeightReduceLoss
    \/ \E tgt \in Targets(tensor) : CallL1Loss(tgt)

SpecLoss == InitLoss /\ [][NextLoss]_vars

(***************************************************************************)
(* The artifact map of LDL (onesr/losses/loss_util.py)                     *)
(***************************************************************************)
\* Element (n, c, h, w) of a four-dimensional tensor, indices from 0
At(t, n, c, h, w) ==
    t.data[((n * Size(t, 1) + c) * Size(t, 2) + h) * Size(t, 3) + w + 1]

AbsDiff(a, b) == IF a >= b THEN a - b ELSE b - a

\* flow.sum(flow.abs(img_gt - img), 1, keepdim=True)
Residual(gt, img) ==
    LET N == Size(gt, 0)
        C == Size(gt, 1)
        H == Size(gt, 2)
        W == Size(gt, 3)
    IN  Tensor(<<N, 1, H, W>>,
               [k \in 1..(N * H * W) |->
                   LET n == (k - 1) \div (H * W)
                       h == ((k - 1) \div W) % H
                       w == (k - 1) % W
                   IN  SumSeq([c \in 1..C |->
                           AbsDiff(At(gt, n, c - 1, h, w), At(img, n, c - 1, h, w))])])

\* flow.var(..., unbiased=True) of the elements of a list:
\* sum((x - mean)^2) / (n - 1) = (n * sum(x^2) - sum(x)^2) / (n * (n - 1))
Var(xs) ==
    LET n  == Len(xs)
        s1 == SumSeq(xs)
        s2 == SumSeq([k \in 1..n |-> xs[k] * xs[k]])
    IN  Frac(n * s2 - s1 * s1, n * (n - 1))

\* The source index that mode="reflect" padding reads for index x of 0 .. n-1
Reflect(x, n) == IF x < 0 THEN 0 - x ELSE IF x >= n THEN 2 * (n - 1) - x ELSE x

\* get_local_weights: per pixel, the unbiased variance of its ksize x ksize
\* window of the reflect-padded residual; a (N, 1, H, W) list of numbers
get_local_weights(residual, k) ==
    LET pad == (k - 1) \div 2
        N == Size(residual, 0)
        H == Size(residual, 2)
        W == Size(residual, 3)
        window(n, h, w) ==
            [e \in 1..(k * k) |->
                At(residual, n, 0,
                   Reflect(h + ((e - 1) \div k) - pad, H),
                   Reflect(w + ((e - 1) % k) - pad, W))]
    IN  [i \in 1..(N * H * W) |->
            Var(window((i - 1) \div (H * W), ((i - 1) \div W) % H, (i - 1) % W))]

\* var ** (1 / 5) * pixel: nan when either is nan, 0 when either is 0,
\* and otherwise the positive number root5(patch) * pixel, kept as the pair
Weight(patch, pixel) ==
    IF IsNan(patch) \/ IsNan(pixel) THEN Frac(0, 0)
    ELSE IF patch.num = 0 \/ pixel.num = 0 THEN Frac(0, 1)
    ELSE [root5 |-> patch, times |-> pixel]

\* patch_level_weight * pixel_level_weight, before the mask
OverallWeight(residual_sr, k) ==
    LET N == Size(residual_sr, 0)
        per == Size(residual_sr, 2) * Size(residual_sr, 3)
        patch(n) == Var(SubSeq(residual_sr.data, n * per + 1, (n + 1) * per))
        pixel == get_local_weights(residual_sr, k)
    IN  [i \in 1..(N * per) |-> Weight(patch((i - 1) \div per), pixel[i])]

\* Variant of the mask with a non-strict comparison: residual_sr <= residual_ema
Masked_OrEqual(sr, ema) == sr <= ema

\* The mask: the positions that are set to 0
Masked(sr, ema) == sr < ema

get_refined_artifact_map(gt, output, ema, k) ==
    LET residual_ema == Residual(gt, ema)
        residual_sr  == Residual(gt, output)
        overall_weight == OverallWeight(residual_sr, k)
    IN  [i \in 1..Len(overall_weight) |->
            IF Masked(residual_sr.data[i], residual_ema.data[i])
            THEN Frac(0, 1)
            ELSE overall_weight[i]]

\* The images tried: one sample, one channel, 2 x 2 pixels
Images == {Tensor(<<1, 1, 2, 2>>, d) : d \in [1..4 -> Pixels]}

InitLDL ==
    /\ img_gt \in Images
    /\ img_output \in Images
    /\ img_ema \in Images
    /\ ksize \in KSizes
    /\ ldl = <<>>
    /\ SamplerIdle /\ LossIdle /\ InferIdle

CallArtifactMap ==
    /\ ldl = <<>>
    /\ ldl' = get_refined_artifact_map(img_gt, img_output, img_ema, ksize)
    /\ UNCHANGED <<img_gt, img_output, img_ema, ksize>>
    /\ UNCHANGED <<samplerVars, lossVars, inferVars>>

NextLDL == CallArtifactMap

SpecLDL == InitLDL /\ [][NextLDL]_vars

(***************************************************************************)
(* main of inference/inference_basicvsr.py: the frames given to inference  *)
(***************************************************************************)
RECURSIVE Sorted(_)
\* sorted(names) for a set of distinct names
Sorted(S) ==
    IF S = {} THEN <<>>
    ELSE LET m == CHOOSE x \in S : \A y \in S : x <= y
         IN  <<m>> \o Sorted(S \ {m})

\* imgs_list = sorted(glob.glob(...))
imgs_list == Sorted(files)
num_imgs == Len(imgs_list)

\* The frames of one loop iteration: imgs_list[idx : idx + interval]
\* with interval = min(args.interval, num_imgs - idx)
Chunk(list, i, step) ==
    PySlice(list, i, i + Min(step, Len(list) - i), 1)

\* Variant of the loop step that skips a frame between batches
NextIdx_Skip(i, step) == i + step + 1

\* The next value range(0, num_imgs, args.interval) gives after i
NextIdx(i, step) == i + step

InitInference ==
    /\ files \in SUBSET (1..MaxFiles)
    /\ interval \in 1..MaxInterval
    /\ pc = "start"
    /\ idx = 0
    /\ calls = <<>>
    /\ SamplerIdle /\ LossIdle /\ LDLIdle

\* len(imgs_list) <= args.interval: one call with every frame
InferenceAll ==
    /\ pc = "start"
    /\ num_imgs <= interval
    /\ calls' = Append(calls, imgs_list)
    /\ pc' = "done"
    /\ UNCHANGED <<files, interval, idx>>
    /\ UNCHANGED <<samplerVars, lossVars, ldlVars>>

\* one iteration of the for loop
InferenceChunk ==
    /\ pc \in {"start", "loop"}
    /\ num_imgs > interval
    /\ idx < num_imgs
    /\ calls' = Append(calls, Chunk(imgs_list, idx, interval))
    /\ idx' = NextIdx(idx, interval)
    /\ pc' = "loop"
    /\ UNCHANGED <<files, interval>>
    /\ UNCHANGED <<samplerVars, lossVars, ldlVars>>

\* range(0, num_imgs, args.interval) is exhausted
LoopEnd ==
    /\ pc = "loop"
    /\ idx >= num_imgs
    /\ pc' = "done"
    /\ UNCHANGED <<files, interval, idx, calls>>
    /\ UNCHANGED <<samplerVars, lossVars, ldlVars>>

NextInference == InferenceAll \/ InferenceChunk \/ LoopEnd

SpecInference == InitInference /\ [][NextInference]_vars

(***************************************************************************)
(* Properties of the sampler, checked under Spec                           *)
(***************************************************************************)
Iterated(p) == iterSeed[p] # <<>>

\* C1: for every dataset_size, num_replicas, ratio >= 1 and every rank below
\* num_replicas, whatever epoch was set, __iter__ never fails its assertion and
\* yields exactly len(sampler) indices, all in [0, dataset_size), where
\* len(sampler) is ceil(dataset_size * ratio / num_replicas): the least n with
\* n * num_replicas >= dataset_size * ratio.
C1_IterYieldsNumSamples ==
    \A p \in Procs :
        LET n    == SamplerLen(sampler[p])
            need == job.dataset_size * job.ratio
        IN  /\ ~assertFailed[p]
            /\ n * job.num_replicas >= need
            /\ (n - 1) * job.num_replicas < need
            /\ Iterated(p) =>
                  /\ Len(yielded[p]) = n
                  /\ \A k \in 1..Len(yielded[p]) :
                        yielded[p][k] \in 0..(job.dataset_size - 1)

\* A sampler iterated under epoch 1 whose enlarged dataset (ratio > 1) is not a
\* multiple of num_replicas
C1_Witness ==
    \E p \in Procs :
        /\ iterSeed[p] = <<1>>
        /\ job.ratio > 1
        /\ (job.dataset_size * job.ratio) % job.num_replicas # 0
        /\ Len(yielded[p]) = sampler[p].num_samples
        /\ Len(yielded[p]) >= 1

C3_Frame ==
    \A p \in Procs :
        /\ sampler'[p].num_samples = sampler[p].num_samples
        /\ sampler'[p].total_size = sampler[p].total_size
        /\ sampler'[p].rank = sampler[p].rank
        /\ sampler'[p].num_replicas = sampler[p].num_replicas
        /\ sampler'[p].dataset_size = sampler[p].dataset_size
        \* a step of __iter__: it ran under the epoch the sampler holds and
        \* left every field as it was
        /\ (yielded'[p] # yielded[p] \/ iterSeed'[p] # iterSeed[p]) =>
              /\ sampler'[p] = sampler[p]
              /\ iterSeed'[p] = <<sampler[p].epoch>>
        \* a step of set_epoch: nothing is yielded
        /\ sampler'[p].epoch # sampler[p].epoch =>
              /\ yielded'[p] = yielded[p]
              /\ iterSeed'[p] = iterSeed[p]

\* C3: the sequence an iteration produces depends only on (dataset_size,
\* num_replicas, rank, ratio) and the epoch the sampler holds, which only
\* set_epoch changes: two samplers of the same rank iterated under the same
\* epoch yielded the same sequence, a re-iteration under the same epoch
\* reproduces it, __iter__ changes no field and set_epoch only the epoch.
C3_SequenceIsFunctionOfEpoch ==
    /\ [](\A p, q \in Procs :
             (Iterated(p) /\ Iterated(q) /\ iterSeed[p] = iterSeed[q]
                 /\ sampler[p].rank = sampler[q].rank)
             => yielded[p] = yielded[q])
    /\ [][C3_Frame]_vars

\* Two samplers of the same rank, both iterated under epoch 1, one of them set
\* back to epoch 0 since, with a generator that tells the two epochs apart
C3_Witness ==
    /\ iterSeed["a"] = <<1>> /\ iterSeed["b"] = <<1>>
    /\ sampler["a"].rank = sampler["b"].rank
    /\ sampler["a"].epoch = 0 /\ sampler["b"].epoch = 1
    /\ yielded["a"] = yielded["b"]
    /\ generator[0] # generator[1]
    /\ Len(yielded["a"]) >= 2

(***************************************************************************)
(* Properties of the loss utilities, checked under SpecLoss                *)
(***************************************************************************)
Supported == {"none", "mean", "sum", "elementwise_mean"}

\* C4: reduce_loss(loss, 'elementwise_mean') does not end in an error: it
\* emits the deprecation warning and returns what reduce_loss(loss, 'mean')
\* returns.
C4_ElementwiseMeanIsMean ==
    (call = "reduce_loss" /\ reduction = "elementwise_mean") =>
        /\ ret.status = "ok"
        /\ ret.warned
        /\ ret.value = reduce_loss(tensor, "mean").value

\* The arguments meet the shape contract: no weight, or a weight of the rank
\* of the loss (at least 2) whose dimension-1 size is 1 or that of the loss
ShapesAgree ==
    \/ weight = None
    \/ /\ Dim(weight) = Dim(tensor)
       /\ Dim(weight) >= 2
       /\ Size(weight, 1) \in {1, Size(tensor, 1)}

\* C5: every entry point (reduce_loss, weight_reduce_loss, a function made by
\* weighted_loss) raises ValueError for an unsupported reduction string, with
\* and without a weight (stated for arguments that meet the shape contract,
\* where no shape error can come first).
C5_UnsupportedReductionRaises ==
    (call # "" /\ reduction \notin Supported /\ ShapesAgree)
        => ret.status = "ValueError"

\* C6: reduce_loss returns the input unchanged for 'none', the arithmetic mean
\* of all elements for 'mean' (mean * count = sum) and the sum of all elements
\* for 'sum'; [1,2,3] gives [1,2,3], 2 and 6, an all-zero tensor gives 0 for
\* 'mean' and 'sum'; a value outside {none, mean, sum, elementwise_mean}
\* raises ValueError.
C6_ReduceLoss ==
    call = "reduce_loss" =>
        LET total == SumSeq(tensor.data)
            count == Len(tensor.data)
            zeros == \A k \in 1..count : tensor.data[k] = 0
        IN  /\ reduction = "none" =>
                  (ret.status = "ok" /\ ret.value = tensor)
            /\ reduction = "mean" =>
                  /\ ret.status = "ok"
                  /\ ret.value.den > 0
                  /\ ret.value.num * count = total * ret.value.den
                  /\ tensor.data = <<1, 2, 3>> => ret.value = [num |-> 2, den |-> 1]
                  /\ zeros => ret.value = [num |-> 0, den |-> 1]
            /\ reduction = "sum" =>
                  /\ ret.status = "ok"
                  /\ ret.value = [num |-> total, den |-> 1]
                  /\ tensor.data = <<1, 2, 3>> => ret.value = [num |-> 6, den |-> 1]
                  /\ zeros => ret.value = [num |-> 0, den |-> 1]
            /\ reduction \notin Supported =>
                  (ret.status = "ValueError" /\ ret.value = None)

\* reduce_loss([1, 2, 3], 'sum') returned 6
C6_Witness ==
    /\ call = "reduce_loss"
    /\ tensor = Tensor(<<3>>, <<1, 2, 3>>)
    /\ reduction = "sum"
    /\ ret = Returned([num |-> 6, den |-> 1])

\* The sum over all (n, c, h, w) of loss * weight, the weight read at channel 0
\* when it has one channel
WeightedTotal(loss, w) ==
    LET N == Size(loss, 0)
        C == Size(loss, 1)
        H == Size(loss, 2)
        W == Size(loss, 3)
    IN  SumSeq([i \in 1..(N * C * H * W) |->
            LET n  == (i - 1) \div (C * H * W)
                c  == ((i - 1) \div (H * W)) % C
                h  == ((i - 1) \div W) % H
                x  == (i - 1) % W
            IN  At(loss, n, c, h, x)
                    * At(w, n, IF Size(w, 1) = 1 THEN 0 ELSE c, h, x)])

\* C7: for a loss of shape (N, C, H, W) and a weight of the same rank whose
\* dimension-1 size is 1 or C, weight_reduce_loss(loss, weight, 'mean') returns
\* sum(loss * weight) / normalizer, the normalizer being sum(weight) when the
\* weight's dimension-1 size is greater than 1 and sum(weight) * C otherwise
\* (so sum(weight) when C = 1).
C7_WeightedMean ==
    (/\ call = "weight_reduce_loss"
     /\ reduction = "mean"
     /\ Dim(tensor) = 4
     /\ weight # None
     /\ Dim(weight) = 4
     /\ Size(weight, 1) \in {1, Size(tensor, 1)})
    => LET wsum == SumSeq(weight.data)
           norm == IF Size(weight, 1) > 1 THEN wsum ELSE wsum * Size(tensor, 1)
       IN  /\ ret.status = "ok"
           /\ ret.value = Frac(WeightedTotal(tensor, weight), norm)
           /\ Size(tensor, 1) = 1 =>
                 ret.value = Frac(WeightedTotal(tensor, weight), wsum)

\* A one-channel weight [1, 0] broadcast over the two channels [1, 2] and
\* [2, 1] of a loss: (1 + 2) / (1 * 2)
C7_Witness ==
    /\ call = "weight_reduce_loss"
    /\ reduction = "mean"
    /\ tensor = Tensor(<<1, 2, 1, 2>>, <<1, 2, 2, 1>>)
    /\ weight = Tensor(<<1, 1, 1, 2>>, <<1, 0>>)
    /\ ret = Returned([num |-> 3, den |-> 2])

\* C8: for one-dimensional inputs, as in the docstring of weighted_loss,
\* weight_reduce_loss(loss, weight, 'mean') returns sum(loss * weight) /
\* sum(weight) without an error ([1,1,2] with weight [1,0,1] gives 1.5), and
\* l1_loss(pred=[0,2,3], target=[1,1,1], weight=[1,0,1]) returns 1.5 for 'mean'
\* and 3 for 'sum'.
C8_DocstringExample ==
    /\ (/\ call = "weight_reduce_loss"
        /\ reduction = "mean"
        /\ Dim(tensor) = 1
        /\ weight # None
        /\ Dim(weight) = 1)
       => /\ ret.status = "ok"
          /\ ret.value =
                Frac(SumSeq([k \in 1..Len(tensor.data) |->
                                 tensor.data[k] * weight.data[k]]),
                     SumSeq(weight.data))
          /\ (tensor.data = <<1, 1, 2>> /\ weight.data = <<1, 0, 1>>)
                => ret.value = [num |-> 3, den |-> 2]
    /\ (/\ call = "l1_loss"
        /\ tensor = Tensor(<<3>>, <<0, 2, 3>>)
        /\ target = Tensor(<<3>>, <<1, 1, 1>>)
        /\ weight = Tensor(<<3>>, <<1, 0, 1>>))
       => /\ reduction = "mean" => ret = Returned([num |-> 3, den |-> 2])
          /\ reduction = "sum" => ret = Returned([num |-> 3, den |-> 1])

(***************************************************************************)
(* Properties of the artifact map, checked under SpecLDL                   *)
(***************************************************************************)
Zero == [num |-> 0, den |-> 1]

\* C9, as stated: when img_output and img_ema are identical every entry of the
\* returned map is zero; in general an entry is zero where residual_sr <
\* residual_ema and patch_level_weight * pixel_level_weight elsewhere.
C9_IdenticalImagesAllZero ==
    ldl # <<>> =>
        LET residual_sr  == Residual(img_gt, img_output)
            residual_ema == Residual(img_gt, img_ema)
            unmasked     == OverallWeight(residual_sr, ksize)
        IN  /\ img_output = img_ema => \A i \in 1..Len(ldl) : ldl[i] = Zero
            /\ \A i \in 1..Len(ldl) :
                  ldl[i] = IF residual_sr.data[i] < residual_ema.data[i]
                           THEN Zero ELSE unmasked[i]

\* C9, amended: an entry of the returned map is zero where residual_sr <
\* residual_ema and patch_level_weight * pixel_level_weight elsewhere; when
\* img_output and img_ema are identical no entry is masked and the map is
\* patch_level_weight * pixel_level_weight at every position.
C9_MaskIsStrict ==
    ldl # <<>> =>
        LET residual_sr  == Residual(img_gt, img_output)
            residual_ema == Residual(img_gt, img_ema)
            unmasked     == OverallWeight(residual_sr, ksize)
        IN  /\ Len(ldl) = Len(residual_sr.data)
            /\ img_output = img_ema => ldl = unmasked
            /\ \A i \in 1..Len(ldl) :
                  ldl[i] = IF residual_sr.data[i] < residual_ema.data[i]
                           THEN Zero ELSE unmasked[i]

\* Identical img_output and img_ema, and a map with a positive entry
C9_Witness ==
    /\ ldl # <<>>
    /\ img_output = img_ema
    /\ \E i \in 1..Len(ldl) : ldl[i] # Zero /\ ldl[i] # Frac(0, 0)

(***************************************************************************)
(* Properties of the inference script, checked under SpecInference         *)
(***************************************************************************)
RECURSIVE Flatten(_)
Flatten(lists) ==
    IF lists = <<>> THEN <<>> ELSE Head(lists) \o Flatten(Tail(lists))

\* C10: for N >= 1 frames and interval >= 1, the frame lists passed to the
\* successive inference calls are consecutive slices of the sorted frame list:
\* concatenated in call order they are a prefix of the list while main runs
\* and the whole list once it is done (each frame exactly once); every call
\* receives between 1 and interval frames, and exactly one call is made when
\* N <= interval.
C10_FramesBatchedOnce ==
    num_imgs >= 1 =>
        LET passed == Flatten(calls)
        IN  /\ \A k \in 1..Len(calls) :
                  Len(calls[k]) >= 1 /\ Len(calls[k]) <= interval
            /\ Len(passed) <= num_imgs
            /\ passed = SubSeq(imgs_list, 1, Len(passed))
            /\ pc = "done" => passed = imgs_list
            /\ (pc = "done" /\ num_imgs <= interval) => Len(calls) = 1

\* main is done after several calls, the last one with fewer frames than interval
C10_Witness ==
    /\ pc = "done"
    /\ Len(calls) >= 2
    /\ Len(calls[Len(calls)]) < interval
    /\ Flatten(calls) = imgs_list

====
